---- MODULE Spec2Model ----
(***************************************************************************)
(* Model of the OPAL update-propagation and lifecycle-orchestration code:  *)
(*   src/opal/server/policy/github_webhook/api.py  (webhook bridge)        *)
(*   src/opal/client/policy/updater.py             (reconciler, runner)    *)
(*   src/opal_client/client.py                     (orchestrator)          *)
(* Strings that the code inspects (topics, directories) are sequences of   *)
(* one-character strings, so that startswith / prefix removal are          *)
(* computed, not assumed.                                                  *)
(***************************************************************************)
EXTENDS Integers, Sequences, FiniteSets, TLC

(* ------------------------------ bounds -------------------------------- *)
\* total number of reconciles (update_policy calls) in one behaviour
MaxReconciles == 3
\* total number of publications made by the server in one behaviour
MaxPublish == 2
\* total number of PolicyUpdater.start() calls in one behaviour
MaxStarts == 2
\* total number of PolicyUpdater.stop() calls in one behaviour
MaxStops == 2

\* length of a list of directories given to PolicyUpdater.__init__
MaxDirs == 3

(* --------------------------- configuration ---------------------------- *)
authz == <<"a", "u", "t", "h", "z">>
rbac == <<"r", "b", "a", "c">>

\* opal.client.config.POLICY_SUBSCRIPTION_DIRS: the watched directories
POLICY_SUBSCRIPTION_DIRS == <<authz, rbac>>

\* opal.client.policy.topics.POLICY_PREFIX
POLICY_PREFIX == <<"p", "o", "l", "i", "c", "y", ":">>

\* the literal topic published by the webhook route
WEBHOOK_TOPIC == <<"w", "e", "b", "h", "o", "o", "k">>

\* values of opal.server.config.POLICY_REPO_URL
None == "None"
REPO == "git://policy-repo"
OTHER_REPO == "git://other-repo"

\* the two stores a reconcile can be handed
DEFAULT_POLICY_STORE == "default"
INJECTED_STORE == "injected"
Stores == {DEFAULT_POLICY_STORE, INJECTED_STORE}

(* ------------------------------ inputs -------------------------------- *)
\* directory strings carried by directory-derived topics
DirInputs == {authz, <<>>, <<"x">>}
\* topics that are not directory-derived
OtherTopicInputs == {WEBHOOK_TOPIC, <<>>, <<"p", "o", "l", "i", "c", "y">>}
TopicInputs == {POLICY_PREFIX \o d : d \in DirInputs} \cup OtherTopicInputs
\* webhook requests: the affected repository urls and the event header
UrlInputs == {<<>>, <<REPO>>, <<OTHER_REPO>>, <<OTHER_REPO, REPO>>}
EventInputs == {"push", "pull_request", "ping"}
\* lists of directories a PolicyUpdater is constructed with: repeated
\* directories, the empty directory, a directory that starts with the prefix
ListDirInputs == DirInputs \cup {POLICY_PREFIX \o authz}
DirLists == UNION {[1..n -> ListDirInputs] : n \in 0..MaxDirs}

(* ---------------------------- Topic router ---------------------------- *)
\* str.startswith
startswith(s, p) == Len(s) >= Len(p) /\ SubSeq(s, 1, Len(p)) = p

remove_prefix(s, prefix) ==
    IF startswith(s, prefix) THEN SubSeq(s, Len(prefix) + 1, Len(s)) ELSE s

dirs_to_topics(dirs) == [i \in 1..Len(dirs) |-> POLICY_PREFIX \o dirs[i]]

all_policy_directories == POLICY_SUBSCRIPTION_DIRS

Range(s) == {s[i] : i \in 1..Len(s)}

\* the handler's resolution of a topic: the one directory of a
\* directory-derived topic, no directory for any other topic
topicToDirectory_nonempty(topic) ==
    IF startswith(topic, POLICY_PREFIX) /\ Len(topic) > Len(POLICY_PREFIX)
    THEN <<remove_prefix(topic, POLICY_PREFIX)>>
    ELSE <<>>

topicToDirectory(topic) ==
    IF startswith(topic, POLICY_PREFIX)
    THEN <<remove_prefix(topic, POLICY_PREFIX)>>
    ELSE <<>>

(* ------------------------------- state -------------------------------- *)
VARIABLES
    repoUrl,     \* POLICY_REPO_URL of the server
    resp,        \* the last webhook request and the response to it
    pubs,        \* number of publications on the server's pub/sub endpoint
    ctlPubs,     \* publications of the control topic made while the runner's
                 \* client was connected
    inbox,       \* notifications that reached the runner's client, in order
    recs,        \* reconciles: one record per update_policy call
    stores,      \* per store, the reconcile whose bundle it holds (0: none)
    handled,     \* number of _update_policy invocations
    connects,    \* number of connect events delivered to on_connect
    thread,      \* PolicyUpdater._thread: "new", "running", "stopped"
    loopQueue,   \* _run_client tasks created on the thread's loop, not yet run
    client,      \* PolicyUpdater._client
    clientGen,   \* how many clients _run_client has constructed
    subscribed,  \* topics the current client subscribed to
    stopSt,      \* the stop() call in progress, or how the last one ended
    stopGen,     \* the client (by construction number) a stop() disconnects
    starts,      \* number of start() calls
    stopCalls,   \* number of stop() calls
    teardowns,   \* number of executions of self._thread.stop()
    clientOps,   \* the operations made on the client, each with the loop
                 \* it ran on
    _policy_store, \* PolicyUpdater._policy_store
    router,      \* a list of directories, its topics, and the directories
                 \* the handler's topic resolution gave back for them
    opa,         \* OpalClient.opa_runner: "off" when it is False
    opaReady,    \* the engine-runner has reported its first successful start
    startPc,     \* where start_client_background_tasks is
    depPc,       \* where launch_policy_store_dependent_tasks is
    launch,      \* per runner, the state of its launch coroutine
    completed,   \* the launch coroutines that ended, in the order they ended
    awaited,     \* how many of them the as_completed loop has awaited
    sigterms,    \* number of SIGTERMs the orchestrator sent to its process
    shutPc,      \* where stop_client_background_tasks is
    stopTask,    \* per runner, the task that runs its stop()
    timeoutLogged \* the shutdown logged the time-out of its wait

runnerVars == <<inbox, recs, stores, handled, connects, thread, loopQueue,
                client, clientGen, subscribed, stopSt, stopGen, starts,
                stopCalls, teardowns, clientOps>>
serverVars == <<repoUrl, resp, pubs, ctlPubs>>
ctorVars == <<_policy_store, router>>
orchVars == <<opa, opaReady, startPc, depPc, launch, completed, awaited,
              sigterms, shutPc, stopTask, timeoutLogged>>
vars == <<serverVars, ctorVars, runnerVars, orchVars>>

\* the two subscription runners the orchestrator composes
Runners == {"policy", "data"}

NoRouter == [dirs |-> <<>>, topics |-> <<>>, back |-> <<>>, pc |-> "idle"]

NoResp == [status |-> "none", event |-> "none", repo_url |-> None,
           matched |-> FALSE, published |-> FALSE]

Init ==
    /\ repoUrl \in {None, REPO}
    /\ resp = NoResp
    /\ pubs = 0
    /\ ctlPubs = 0
    /\ inbox = <<>>
    /\ recs = <<>>
    /\ stores = [s \in Stores |-> 0]
    /\ handled = 0
    /\ connects = 0
    /\ thread = "new"
    /\ loopQueue = 0
    /\ client = "none"
    /\ clientGen = 0
    /\ subscribed = {}
    /\ stopSt = "idle"
    /\ stopGen = 0
    /\ starts = 0
    /\ stopCalls = 0
    /\ teardowns = 0
    /\ clientOps = {}
    /\ _policy_store \in Stores
    /\ router = NoRouter
    /\ opa \in {"off", "idle"}
    /\ opaReady = FALSE
    /\ startPc = "idle"
    /\ depPc = "idle"
    /\ launch = [r \in Runners |-> "idle"]
    /\ completed = <<>>
    /\ awaited = 0
    /\ sigterms = 0
    /\ shutPc = "idle"
    /\ stopTask = [r \in Runners |-> "none"]
    /\ timeoutLogged = FALSE

(* --------------------------- pub/sub broker --------------------------- *)
\* a publication reaches the runner's client when the client is connected
\* and has subscribed to exactly that topic
Reaches(topic) == client = "connected" /\ topic \in subscribed

publish(topic) ==
    /\ pubs' = pubs + 1
    /\ ctlPubs' = IF topic = WEBHOOK_TOPIC /\ client = "connected"
                  THEN ctlPubs + 1 ELSE ctlPubs
    /\ inbox' = IF Reaches(topic) THEN Append(inbox, topic) ELSE inbox

(* --------------------------- webhook bridge --------------------------- *)
\* the route answering "ignored" to every event that is not a push
trigger_git_webhook_push_only(urls, event) ==
    IF repoUrl # None /\ repoUrl \in Range(urls) /\ event = "push"
    THEN /\ pubs < MaxPublish
         /\ publish(WEBHOOK_TOPIC)
         /\ resp' = [status |-> "ok", event |-> event, repo_url |-> urls[1],
                     matched |-> TRUE, published |-> TRUE]
    ELSE /\ resp' = [status |-> "ignored", event |-> event, repo_url |-> None,
                     matched |-> repoUrl \in Range(urls), published |-> FALSE]
         /\ UNCHANGED <<pubs, ctlPubs, inbox>>

trigger_git_webhook(urls, event) ==
    IF repoUrl # None /\ repoUrl \in Range(urls)
    THEN IF event = "push"
         THEN /\ pubs < MaxPublish
              /\ publish(WEBHOOK_TOPIC)
              /\ resp' = [status |-> "ok", event |-> event, repo_url |-> urls[1],
                          matched |-> TRUE, published |-> TRUE]
         ELSE /\ resp' = [status |-> "ok", event |-> event, repo_url |-> urls[1],
                          matched |-> TRUE, published |-> FALSE]
              /\ UNCHANGED <<pubs, ctlPubs, inbox>>
    ELSE /\ resp' = [status |-> "ignored", event |-> event, repo_url |-> None,
                     matched |-> repoUrl \in Range(urls), published |-> FALSE]
         /\ UNCHANGED <<pubs, ctlPubs, inbox>>

Webhook ==
    /\ \E urls \in UrlInputs, event \in EventInputs : trigger_git_webhook(urls, event)
    /\ UNCHANGED <<repoUrl, ctorVars, recs, stores, handled, connects, thread, loopQueue,
                   client, clientGen, subscribed, stopSt, stopGen, starts,
                   stopCalls, teardowns, clientOps>>

\* the server's own publishers announce a change of one directory
PublishPolicyTopic ==
    /\ pubs < MaxPublish
    /\ \E d \in DirInputs : publish(POLICY_PREFIX \o d)
    /\ UNCHANGED <<repoUrl, ctorVars, resp, recs, stores, handled, connects, thread,
                   loopQueue, client, clientGen, subscribed, stopSt, stopGen,
                   starts, stopCalls, teardowns, clientOps>>

(* ----------------------------- reconciler ----------------------------- *)
\* update_policy taking a list that holds only the empty directory for an
\* empty list
update_policy_blank_is_empty(directories, policy_store, trigger, topic, warned) ==
    LET resolved == IF directories # <<>> /\ directories # << <<>> >>
                    THEN directories
                    ELSE all_policy_directories
    IN  recs' = Append(recs, [trigger |-> trigger, topic |-> topic,
                              warned |-> warned, dirs |-> resolved,
                              store |-> policy_store, stage |-> "fetching"])

\* update_policy up to its first suspension: the directories are resolved
\* and the fetch is issued
update_policy(directories, policy_store, trigger, topic, warned) ==
    LET resolved == IF directories # <<>> THEN directories
                    ELSE all_policy_directories
    IN  recs' = Append(recs, [trigger |-> trigger, topic |-> topic,
                              warned |-> warned, dirs |-> resolved,
                              store |-> policy_store, stage |-> "fetching"])

refetch_policy_and_update_opa(policy_store, trigger) ==
    update_policy(<<>>, policy_store, trigger, <<>>, FALSE)

\* a reconcile started by the client's callbacks runs on the runner's loop;
\* one started by a direct call runs on the caller's loop
Runs(i) == recs[i].trigger = "call" \/ thread = "running"

\* update_policy handing whatever the fetch returned to set_policies, an
\* absent bundle included
FetchReturns_applies_nothing ==
    /\ \E i \in 1..Len(recs), result \in {"bundle", "none", "raise"} :
          /\ recs[i].stage = "fetching"
          /\ Runs(i)
          /\ recs' = [recs EXCEPT ![i].stage =
                         CASE result = "bundle" -> "applying"
                           [] result = "none" -> "done"
                           [] OTHER -> "fetch_raised"]
          /\ stores' = IF result = "none"
                       THEN [stores EXCEPT ![recs[i].store] = i]
                       ELSE stores
    /\ UNCHANGED <<serverVars, ctorVars, inbox, handled, connects, thread,
                   loopQueue, client, clientGen, subscribed, stopSt, stopGen,
                   starts, stopCalls, teardowns, clientOps>>

\* policy_fetcher.fetch_policy_bundle returns a bundle, returns nothing, or
\* raises
FetchReturns ==
    /\ \E i \in 1..Len(recs), result \in {"bundle", "none", "raise"} :
          /\ recs[i].stage = "fetching"
          /\ Runs(i)
          /\ recs' = [recs EXCEPT ![i].stage =
                         CASE result = "bundle" -> "applying"
                           [] result = "none" -> "done"
                           [] OTHER -> "fetch_raised"]
    /\ UNCHANGED <<serverVars, ctorVars, inbox, stores, handled, connects, thread,
                   loopQueue, client, clientGen, subscribed, stopSt, stopGen,
                   starts, stopCalls, teardowns, clientOps>>

\* a set_policies that has written its bundle when it raises
SetPoliciesReturns_partial ==
    /\ \E i \in 1..Len(recs), ok \in BOOLEAN :
          /\ recs[i].stage = "applying"
          /\ Runs(i)
          /\ recs' = [recs EXCEPT ![i].stage =
                         IF ok THEN "applied" ELSE "apply_raised"]
          /\ stores' = [stores EXCEPT ![recs[i].store] = i]
    /\ UNCHANGED <<serverVars, ctorVars, inbox, handled, connects, thread, loopQueue,
                   client, clientGen, subscribed, stopSt, stopGen, starts,
                   stopCalls, teardowns, clientOps>>

\* a set_policies that keeps the bundle of the reconcile that started
\* later when an earlier one finishes after it
SetPoliciesReturns_newest ==
    /\ \E i \in 1..Len(recs), ok \in BOOLEAN :
          /\ recs[i].stage = "applying"
          /\ Runs(i)
          /\ recs' = [recs EXCEPT ![i].stage =
                         IF ok THEN "applied" ELSE "apply_raised"]
          /\ stores' = IF ok /\ i > stores[recs[i].store]
                       THEN [stores EXCEPT ![recs[i].store] = i]
                       ELSE stores
    /\ UNCHANGED <<serverVars, ctorVars, inbox, handled, connects, thread, loopQueue,
                   client, clientGen, subscribed, stopSt, stopGen, starts,
                   stopCalls, teardowns, clientOps>>

\* policy_store.set_policies applies the bundle, or raises
SetPoliciesReturns ==
    /\ \E i \in 1..Len(recs), ok \in BOOLEAN :
          /\ recs[i].stage = "applying"
          /\ Runs(i)
          /\ recs' = [recs EXCEPT ![i].stage =
                         IF ok THEN "applied" ELSE "apply_raised"]
          /\ stores' = IF ok THEN [stores EXCEPT ![recs[i].store] = i]
                       ELSE stores
    /\ UNCHANGED <<serverVars, ctorVars, inbox, handled, connects, thread, loopQueue,
                   client, clientGen, subscribed, stopSt, stopGen, starts,
                   stopCalls, teardowns, clientOps>>

(* ------------------------- topics round trip -------------------------- *)
\* PolicyUpdater.__init__ with a list of directories: self._topics
MapDirs ==
    /\ router.pc = "idle"
    /\ \E dirs \in DirLists :
          router' = [dirs |-> dirs, topics |-> dirs_to_topics(dirs),
                     back |-> <<>>, pc |-> "mapped"]
    /\ UNCHANGED <<serverVars, _policy_store, runnerVars, orchVars>>

\* the handler resolves the next of these topics, in their order
MapBack ==
    /\ router.pc = "mapped"
    /\ Len(router.back) < Len(router.topics)
    /\ router' = [router EXCEPT !.back =
                     Append(@, topicToDirectory(router.topics[Len(@) + 1]))]
    /\ UNCHANGED <<serverVars, _policy_store, runnerVars, orchVars>>

(* ------------------------- subscription runner ------------------------ *)
\* PolicyUpdater.__init__: self._topics
topics == dirs_to_topics(POLICY_SUBSCRIPTION_DIRS)

\* _update_policy dropping a notification whose topic it does not recognise
_update_policy_drops(topic, trigger) ==
    /\ handled' = handled + 1
    /\ IF startswith(topic, POLICY_PREFIX)
       THEN recs' = Append(recs, [trigger |-> trigger, topic |-> topic,
                                  warned |-> FALSE,
                                  dirs |-> <<remove_prefix(topic, POLICY_PREFIX)>>,
                                  store |-> DEFAULT_POLICY_STORE,
                                  stage |-> "fetching"])
       ELSE UNCHANGED recs

_update_policy(topic, trigger) ==
    /\ handled' = handled + 1
    /\ IF startswith(topic, POLICY_PREFIX)
       THEN update_policy(<<remove_prefix(topic, POLICY_PREFIX)>>,
                          DEFAULT_POLICY_STORE, trigger, topic, FALSE)
       ELSE update_policy(all_policy_directories,
                          DEFAULT_POLICY_STORE, trigger, topic, TRUE)

\* on_connect refetching on the first connection only
on_connect_first_only ==
    /\ connects' = connects + 1
    /\ IF connects = 0
       THEN recs' = Append(recs, [trigger |-> "connect", topic |-> <<>>,
                                  warned |-> FALSE,
                                  dirs |-> all_policy_directories,
                                  store |-> _policy_store,
                                  stage |-> "fetching"])
       ELSE UNCHANGED recs

on_connect ==
    /\ connects' = connects + 1
    /\ refetch_policy_and_update_opa(_policy_store, "connect")

\* the client calls the handler of the subscription for the next
\* notification it received
Notify ==
    /\ thread = "running"
    /\ inbox # <<>>
    /\ Len(recs) < MaxReconciles
    /\ _update_policy(Head(inbox), "notify")
    /\ inbox' = Tail(inbox)
    /\ UNCHANGED <<serverVars, ctorVars, stores, connects, thread, loopQueue, client,
                   clientGen, subscribed, stopSt, stopGen, starts, stopCalls,
                   teardowns, clientOps>>

\* the handler called with an arbitrary topic
HandlerCalled ==
    /\ Len(recs) < MaxReconciles
    /\ \E topic \in TopicInputs : _update_policy(topic, "call")
    /\ UNCHANGED <<serverVars, ctorVars, inbox, stores, connects, thread, loopQueue,
                   client, clientGen, subscribed, stopSt, stopGen, starts,
                   stopCalls, teardowns, clientOps>>

\* the transport connects (first connection or reconnection)
Connect ==
    /\ thread = "running"
    /\ client \in {"started", "reconnecting"}
    /\ Len(recs) < MaxReconciles
    /\ client' = "connected"
    /\ on_connect
    /\ UNCHANGED <<serverVars, ctorVars, inbox, stores, handled, thread, loopQueue,
                   clientGen, subscribed, stopSt, stopGen, starts, stopCalls,
                   teardowns, clientOps>>

\* the transport loses the connection: on_disconnect only logs
Disconnected ==
    /\ thread = "running"
    /\ client = "connected"
    /\ client' = "reconnecting"
    /\ UNCHANGED <<serverVars, ctorVars, inbox, recs, stores, handled, connects, thread,
                   loopQueue, clientGen, subscribed, stopSt, stopGen, starts,
                   stopCalls, teardowns, clientOps>>

\* start() giving the runner a fresh running thread whenever it is called
start_restarts ==
    /\ starts < MaxStarts
    /\ starts' = starts + 1
    /\ loopQueue' = loopQueue + 1
    /\ thread' = "running"
    /\ UNCHANGED <<serverVars, ctorVars, inbox, recs, stores, handled, connects, client,
                   clientGen, subscribed, stopSt, stopGen, stopCalls, teardowns, clientOps>>

\* PolicyUpdater.start: the task is created first, then the thread is
\* started; a thread that was started before cannot be started again
start ==
    /\ starts < MaxStarts
    /\ starts' = starts + 1
    /\ loopQueue' = loopQueue + 1
    /\ thread' = IF thread = "new" THEN "running" ELSE thread
    /\ UNCHANGED <<serverVars, ctorVars, inbox, recs, stores, handled, connects, client,
                   clientGen, subscribed, stopSt, stopGen, stopCalls, teardowns, clientOps>>

\* what _run_client does with the client; the task it runs in was created
\* on the thread's loop, and start_client is given that loop
RunClientOps == {"construct", "subscribe", "start_client"}

\* _run_client subscribing to the control topic as well
_run_client_with_control ==
    /\ thread = "running"
    /\ loopQueue > 0
    /\ loopQueue' = loopQueue - 1
    /\ client' = "started"
    /\ clientGen' = clientGen + 1
    /\ clientOps' = clientOps \cup {<<op, "thread">> : op \in RunClientOps}
    /\ subscribed' = Range(dirs_to_topics(POLICY_SUBSCRIPTION_DIRS)) \cup {WEBHOOK_TOPIC}
    /\ UNCHANGED <<serverVars, ctorVars, inbox, recs, stores, handled, connects, thread,
                   stopSt, stopGen, starts, stopCalls, teardowns>>

_run_client ==
    /\ thread = "running"
    /\ loopQueue > 0
    /\ loopQueue' = loopQueue - 1
    /\ client' = "started"
    /\ clientGen' = clientGen + 1
    /\ clientOps' = clientOps \cup {<<op, "thread">> : op \in RunClientOps}
    /\ subscribed' = Range(topics)
    /\ UNCHANGED <<serverVars, ctorVars, inbox, recs, stores, handled, connects, thread,
                   stopSt, stopGen, starts, stopCalls, teardowns>>

\* stop() stopping the thread before it disconnects the client
stop_thread_first ==
    /\ stopCalls < MaxStops
    /\ stopSt \notin {"disconnecting", "disconnected"}
    /\ stopCalls' = stopCalls + 1
    /\ IF client = "none"
       THEN stopSt' = "raised" /\ UNCHANGED <<stopGen, thread, teardowns, clientOps>>
       ELSE /\ stopSt' = "disconnecting"
            /\ stopGen' = clientGen
            /\ clientOps' = clientOps \cup {<<"disconnect", "caller">>}
            /\ thread' = "stopped"
            /\ teardowns' = teardowns + 1
    /\ UNCHANGED <<serverVars, ctorVars, inbox, recs, stores, handled, connects,
                   loopQueue, client, clientGen, subscribed, starts>>

\* PolicyUpdater.stop up to its suspension: self._client does not exist
\* before _run_client ran; the disconnect is awaited in the coroutine of
\* stop() itself, so it runs on the loop of whoever awaits stop()
stop ==
    /\ stopCalls < MaxStops
    /\ stopSt \notin {"disconnecting", "disconnected"}
    /\ stopCalls' = stopCalls + 1
    /\ IF client = "none"
       THEN stopSt' = "raised" /\ UNCHANGED <<stopGen, clientOps>>
       ELSE /\ stopSt' = "disconnecting"
            /\ stopGen' = clientGen
            /\ clientOps' = clientOps \cup {<<"disconnect", "caller">>}
    /\ UNCHANGED <<serverVars, ctorVars, inbox, recs, stores, handled, connects, thread,
                   loopQueue, client, clientGen, subscribed, starts, teardowns>>

\* the client's disconnect() completes
DisconnectReturns ==
    /\ stopSt = "disconnecting"
    /\ stopSt' = "disconnected"
    /\ client' = IF stopGen = clientGen THEN "closed" ELSE client
    /\ UNCHANGED <<serverVars, ctorVars, inbox, recs, stores, handled, connects, thread,
                   loopQueue, clientGen, subscribed, stopGen, starts, stopCalls,
                   teardowns, clientOps>>

\* the client's disconnect() raises
DisconnectRaises ==
    /\ stopSt = "disconnecting"
    /\ stopSt' = "raised"
    /\ UNCHANGED <<serverVars, ctorVars, inbox, recs, stores, handled, connects, thread,
                   loopQueue, client, clientGen, subscribed, stopGen, starts,
                   stopCalls, teardowns, clientOps>>

\* the caller cancels the stop() it is waiting for
StopCancelled ==
    /\ stopSt \in {"disconnecting", "disconnected"}
    /\ stopSt' = "cancelled"
    /\ UNCHANGED <<serverVars, ctorVars, inbox, recs, stores, handled, connects, thread,
                   loopQueue, client, clientGen, subscribed, stopGen, starts,
                   stopCalls, teardowns, clientOps>>

\* PolicyUpdater.stop after the disconnect: self._thread.stop()
stop_thread ==
    /\ stopSt = "disconnected"
    /\ stopSt' = "returned"
    /\ thread' = "stopped"
    /\ teardowns' = teardowns + 1
    /\ UNCHANGED <<serverVars, ctorVars, inbox, recs, stores, handled, connects,
                   loopQueue, client, clientGen, subscribed, stopGen, starts,
                   stopCalls, clientOps>>

(* --------------------------- orchestrator ----------------------------- *)
\* start_client_background_tasks launching the runners at once, whether
\* or not an engine-runner is configured
start_client_background_tasks_no_gate ==
    /\ startPc = "scheduled"
    /\ depPc = "idle"
    /\ startPc' = "launching"
    /\ depPc' = "awaiting"
    /\ launch' = [r \in Runners |-> "scheduled"]
    /\ UNCHANGED <<serverVars, ctorVars, runnerVars, opa, opaReady, completed, awaited,
                   sigterms, shutPc, stopTask, timeoutLogged>>

\* the startup callback of the app: the start-up runs as a task of its own
startup_event ==
    /\ startPc = "idle"
    /\ startPc' = "scheduled"
    /\ UNCHANGED <<serverVars, ctorVars, runnerVars, opa, opaReady, depPc, launch,
                   completed, awaited, sigterms, shutPc, stopTask,
                   timeoutLogged>>

\* launch_policy_store_dependent_tasks up to its first suspension: both
\* launch coroutines are handed to as_completed
launch_policy_store_dependent_tasks ==
    /\ depPc = "idle"
    /\ depPc' = "awaiting"
    /\ launch' = [r \in Runners |-> "scheduled"]

\* start_client_background_tasks: with an engine-runner, the launch is
\* registered as its initial-start callback and the engine-runner is
\* entered; without one, the launch is called at once
start_client_background_tasks ==
    /\ startPc = "scheduled"
    /\ IF opa # "off"
       THEN /\ startPc' = "waitOpa"
            /\ opa' = IF opa = "idle" THEN "starting" ELSE opa
            /\ UNCHANGED <<depPc, launch>>
       ELSE /\ startPc' = "launching"
            /\ launch_policy_store_dependent_tasks
            /\ UNCHANGED opa
    /\ UNCHANGED <<serverVars, ctorVars, runnerVars, opaReady, completed, awaited,
                   sigterms, shutPc, stopTask, timeoutLogged>>

\* the engine-runner reports its first successful start and runs the
\* registered callback
OpaStarted ==
    /\ opa = "starting"
    /\ startPc = "waitOpa"
    /\ opa' = "up"
    /\ opaReady' = TRUE
    /\ launch_policy_store_dependent_tasks
    /\ UNCHANGED <<serverVars, ctorVars, runnerVars, startPc, completed, awaited,
                   sigterms, shutPc, stopTask, timeoutLogged>>

\* launch_policy_updater: entering the policy updater starts it
launch_policy_updater ==
    /\ launch["policy"] = "scheduled"
    /\ launch' = [launch EXCEPT !["policy"] = "running"]
    /\ start
    /\ UNCHANGED <<opa, opaReady, startPc, depPc, completed, awaited,
                   sigterms, shutPc, stopTask, timeoutLogged>>

launch_data_updater ==
    /\ launch["data"] = "scheduled"
    /\ launch' = [launch EXCEPT !["data"] = "running"]
    /\ UNCHANGED <<serverVars, ctorVars, runnerVars, opa, opaReady, startPc, depPc,
                   completed, awaited, sigterms, shutPc, stopTask,
                   timeoutLogged>>

\* the server rejects a runner's initial handshake: its launch coroutine
\* ends with InvalidStatusCode
HandshakeRejected ==
    /\ \E r \in Runners :
          /\ launch[r] = "running"
          /\ r = "policy" => (thread = "running" /\ client = "started")
          /\ launch' = [launch EXCEPT ![r] = "rejected"]
          /\ completed' = Append(completed, r)
          /\ client' = IF r = "policy" THEN "rejected" ELSE client
    /\ UNCHANGED <<serverVars, ctorVars, inbox, recs, stores, handled, connects, thread,
                   loopQueue, clientGen, subscribed, stopSt, stopGen, starts,
                   stopCalls, teardowns, opa, opaReady, startPc, depPc,
                   awaited, sigterms, shutPc, stopTask, timeoutLogged, clientOps>>

\* a runner's launch coroutine ends with any other exception
StartupFails ==
    /\ \E r \in Runners :
          /\ launch[r] = "running"
          /\ launch' = [launch EXCEPT ![r] = "error"]
          /\ completed' = Append(completed, r)
    /\ UNCHANGED <<serverVars, ctorVars, runnerVars, opa, opaReady, startPc, depPc,
                   awaited, sigterms, shutPc, stopTask, timeoutLogged>>

\* wait_until_done returns once the runner was stopped
LaunchReturns ==
    /\ \E r \in Runners :
          /\ launch[r] = "running"
          /\ r = "policy" => thread = "stopped"
          /\ r = "data" => stopTask["data"] = "returned"
          /\ launch' = [launch EXCEPT ![r] = "returned"]
          /\ completed' = Append(completed, r)
    /\ UNCHANGED <<serverVars, ctorVars, runnerVars, opa, opaReady, startPc, depPc,
                   awaited, sigterms, shutPc, stopTask, timeoutLogged>>

\* launch_policy_store_dependent_tasks awaits the next coroutine that
\* ended: InvalidStatusCode is caught, logged and answered with SIGTERM;
\* any other exception leaves the function
await_as_completed ==
    /\ depPc = "awaiting"
    /\ awaited < Len(completed)
    /\ awaited' = awaited + 1
    /\ LET r == completed[awaited + 1]
       IN  CASE launch[r] = "rejected" ->
                   depPc' = "sigterm" /\ sigterms' = sigterms + 1
             [] launch[r] = "error" ->
                   depPc' = "raised" /\ UNCHANGED sigterms
             [] OTHER ->
                   /\ depPc' = IF awaited + 1 = Cardinality(Runners)
                               THEN "returned" ELSE "awaiting"
                   /\ UNCHANGED sigterms
    /\ UNCHANGED <<serverVars, ctorVars, runnerVars, opa, opaReady, startPc, launch,
                   completed, shutPc, stopTask, timeoutLogged>>

\* stop_client_background_tasks from the creation of the stop tasks on
CreateStopTasks ==
    /\ stopTask' = [r \in Runners |-> "scheduled"]
    /\ shutPc' = "wait"

\* the shutdown callback of the app: stop_client_background_tasks up to
\* its first suspension
stop_client_background_tasks ==
    /\ startPc # "idle"
    /\ shutPc = "idle"
    /\ IF opa # "off"
       THEN /\ shutPc' = "opaStop"
            /\ opa' = "stopping"
            /\ UNCHANGED stopTask
       ELSE /\ CreateStopTasks
            /\ UNCHANGED opa
    /\ UNCHANGED <<serverVars, ctorVars, runnerVars, opaReady, startPc, depPc, launch,
                   completed, awaited, sigterms, timeoutLogged>>

\* the engine-runner's stop() returns
OpaStopReturns ==
    /\ shutPc = "opaStop"
    /\ opa' = "stopped"
    /\ CreateStopTasks
    /\ UNCHANGED <<serverVars, ctorVars, runnerVars, opaReady, startPc, depPc, launch,
                   completed, awaited, sigterms, timeoutLogged>>

\* the task of the policy updater's stop() starts to run
StopTaskPolicy ==
    /\ stopTask["policy"] = "scheduled"
    /\ stopTask' = [stopTask EXCEPT !["policy"] = "called"]
    /\ stop
    /\ UNCHANGED <<opa, opaReady, startPc, depPc, launch, completed, awaited,
                   sigterms, shutPc, timeoutLogged>>

\* the task of the data updater's stop() starts to run
StopTaskData ==
    /\ stopTask["data"] = "scheduled"
    /\ stopTask' = [stopTask EXCEPT !["data"] = "running"]
    /\ UNCHANGED <<serverVars, ctorVars, runnerVars, opa, opaReady, startPc, depPc,
                   launch, completed, awaited, sigterms, shutPc, timeoutLogged>>

\* the data updater's stop() returns or raises
StopTaskDataEnds ==
    /\ stopTask["data"] = "running"
    /\ \E how \in {"returned", "raised"} :
          stopTask' = [stopTask EXCEPT !["data"] = how]
    /\ UNCHANGED <<serverVars, ctorVars, runnerVars, opa, opaReady, startPc, depPc,
                   launch, completed, awaited, sigterms, shutPc, timeoutLogged>>

\* a stop task has ended, by returning or by raising
Ended(r) ==
    IF r = "policy"
    THEN stopTask[r] = "called" /\ stopSt \in {"returned", "raised"}
    ELSE stopTask[r] \in {"returned", "raised"}

\* the gather of the stop tasks awaited without a time limit
WaitNeverTimesOut ==
    /\ FALSE
    /\ UNCHANGED vars

\* asyncio.wait_for returns: every stop task has ended
WaitReturns ==
    /\ shutPc = "wait"
    /\ \A r \in Runners : Ended(r)
    /\ shutPc' = "done"
    /\ UNCHANGED <<serverVars, ctorVars, runnerVars, opa, opaReady, startPc, depPc,
                   launch, completed, awaited, sigterms, stopTask,
                   timeoutLogged>>

\* asyncio.wait_for times out: the stop tasks that have not ended are
\* cancelled, the time-out is logged and the shutdown returns
WaitTimesOut ==
    /\ shutPc = "wait"
    /\ \E r \in Runners : ~Ended(r)
    /\ shutPc' = "done"
    /\ timeoutLogged' = TRUE
    /\ stopTask' = [r \in Runners |->
                       IF Ended(r) THEN stopTask[r] ELSE "cancelled"]
    /\ stopSt' = IF stopSt \in {"disconnecting", "disconnected"}
                 THEN "cancelled" ELSE stopSt
    /\ UNCHANGED <<serverVars, ctorVars, inbox, recs, stores, handled, connects, thread,
                   loopQueue, client, clientGen, subscribed, stopGen, starts,
                   stopCalls, teardowns, opa, opaReady, startPc, depPc,
                   launch, completed, awaited, sigterms, clientOps>>

(* --------------------------- specification ---------------------------- *)
\* a PolicyUpdater on its own: the configuration of the server and of the
\* orchestrator plays no part
InitUpdater == Init /\ repoUrl = None /\ opa = "off"

\* the handler called directly: it never reads self._policy_store
InitHandler == InitUpdater /\ _policy_store = DEFAULT_POLICY_STORE

\* the server and a PolicyUpdater, without the orchestrator
InitServer == Init /\ opa = "off"

\* the orchestrator and its runners, without the server's route
InitOrch == Init /\ repoUrl = None

\* the notification handler and the reconciler, called directly
NextHandler ==
    \/ HandlerCalled /\ UNCHANGED orchVars
    \/ FetchReturns /\ UNCHANGED orchVars
    \/ SetPoliciesReturns /\ UNCHANGED orchVars

SpecHandler == InitHandler /\ [][NextHandler]_vars

\* the subscription runner under any sequence of start() and stop() calls
NextRunner ==
    \/ start /\ UNCHANGED orchVars
    \/ _run_client /\ UNCHANGED orchVars
    \/ Connect /\ UNCHANGED orchVars
    \/ Disconnected /\ UNCHANGED orchVars
    \/ stop /\ UNCHANGED orchVars
    \/ DisconnectReturns /\ UNCHANGED orchVars
    \/ DisconnectRaises /\ UNCHANGED orchVars
    \/ StopCancelled /\ UNCHANGED orchVars
    \/ stop_thread /\ UNCHANGED orchVars
    \/ FetchReturns /\ UNCHANGED orchVars
    \/ SetPoliciesReturns /\ UNCHANGED orchVars

SpecRunner == InitUpdater /\ [][NextRunner]_vars

\* the webhook route, the broker and a started runner
NextWebhook ==
    \/ Webhook /\ UNCHANGED orchVars
    \/ PublishPolicyTopic /\ UNCHANGED orchVars
    \/ Notify /\ UNCHANGED orchVars
    \/ start /\ UNCHANGED orchVars
    \/ _run_client /\ UNCHANGED orchVars
    \/ Connect /\ UNCHANGED orchVars
    \/ Disconnected /\ UNCHANGED orchVars

SpecWebhook == InitServer /\ [][NextWebhook]_vars

\* a started runner receiving notifications and connect events while its
\* reconciles are in progress
NextReconcile ==
    \/ PublishPolicyTopic /\ UNCHANGED orchVars
    \/ Notify /\ UNCHANGED orchVars
    \/ start /\ UNCHANGED orchVars
    \/ _run_client /\ UNCHANGED orchVars
    \/ Connect /\ UNCHANGED orchVars
    \/ Disconnected /\ UNCHANGED orchVars
    \/ FetchReturns /\ UNCHANGED orchVars
    \/ SetPoliciesReturns /\ UNCHANGED orchVars

SpecReconcile == InitUpdater /\ [][NextReconcile]_vars

\* the mapping of directories to topics and back
NextTopics ==
    \/ MapDirs
    \/ MapBack

SpecTopics == InitUpdater /\ [][NextTopics]_vars

\* the orchestrator, its two runners and the engine-runner
NextOrch ==
    \/ startup_event
    \/ start_client_background_tasks
    \/ OpaStarted
    \/ launch_policy_updater
    \/ launch_data_updater
    \/ HandshakeRejected
    \/ StartupFails
    \/ LaunchReturns
    \/ await_as_completed
    \/ stop_client_background_tasks
    \/ OpaStopReturns
    \/ StopTaskPolicy
    \/ StopTaskData
    \/ StopTaskDataEnds
    \/ WaitReturns
    \/ WaitTimesOut
    \/ _run_client /\ UNCHANGED orchVars
    \/ Connect /\ UNCHANGED orchVars
    \/ Disconnected /\ UNCHANGED orchVars
    \/ DisconnectReturns /\ UNCHANGED orchVars
    \/ DisconnectRaises /\ UNCHANGED orchVars
    \/ stop_thread /\ UNCHANGED orchVars

SpecOrch == InitOrch /\ [][NextOrch]_vars

\* the host's event loop runs the tasks that are ready and its timer fires;
\* nothing makes a runner's or the engine-runner's stop() return
FairSpecOrch ==
    /\ SpecOrch
    /\ WF_vars(start_client_background_tasks)
    /\ WF_vars(await_as_completed)
    /\ WF_vars(StopTaskPolicy)
    /\ WF_vars(StopTaskData)
    /\ WF_vars(WaitReturns)
    /\ WF_vars(WaitTimesOut)

(* ------------------------------ claims -------------------------------- *)
RecIds == 1..Len(recs)
ByHandler(i) == recs[i].trigger \in {"notify", "call"}
ConfiguredDirs == <<authz, rbac>>

\* C1: every connect event delivered to on_connect, first connection or
\* reconnection, in any state of the runner and of the store, triggers
\* exactly one reconcile, and that reconcile fetches all the configured
\* directories.
C1_ConnectFullResync ==
    /\ Cardinality({i \in RecIds : recs[i].trigger = "connect"}) = connects
    /\ \A i \in RecIds :
          recs[i].trigger = "connect" => recs[i].dirs = ConfiguredDirs

\* a reconnection after a first reconcile was applied to the store
C1_Witness ==
    /\ connects = 2
    /\ Len(recs) = 2
    /\ recs[1].stage = "applied"
    /\ recs[2].trigger = "connect"

\* C2: a notification whose topic is the policy prefix followed by a
\* directory makes the handler fetch the bundle of the one-element list
\* holding that directory, never of the configured set; the empty directory
\* included.
C2_TargetedReconcile ==
    \A i \in RecIds : \A d \in DirInputs :
        (ByHandler(i) /\ recs[i].topic = POLICY_PREFIX \o d)
            => (recs[i].dirs = <<d>> /\ recs[i].dirs # ConfiguredDirs)

\* the handler was called with the prefix alone: the directory is empty
C2_Witness ==
    \E i \in RecIds :
        /\ ByHandler(i)
        /\ recs[i].topic = POLICY_PREFIX
        /\ recs[i].dirs = << <<>> >>

\* C3: a notification whose topic is not directory-derived (the control
\* topic, the empty topic, another string) is never dropped: the handler
\* logs a warning and starts a reconcile of all the configured directories;
\* resolving the topic raises nothing, every handler call reaches its fetch.
C3_UnrecognisedTopicFullResync ==
    /\ Cardinality({i \in RecIds : ByHandler(i)}) = handled
    /\ \A i \in RecIds :
          (ByHandler(i) /\ recs[i].topic \in OtherTopicInputs)
              => (recs[i].warned /\ recs[i].dirs = ConfiguredDirs)

\* the handler was called with the control topic
C3_Witness ==
    \E i \in RecIds :
        /\ ByHandler(i)
        /\ recs[i].topic = WEBHOOK_TOPIC
        /\ recs[i].warned
        /\ recs[i].dirs = ConfiguredDirs

\* C4: in every execution of stop(), self._thread.stop() is executed only
\* after the disconnect that the call awaits has completed; the thread
\* never goes from running to stopped while that disconnect is pending.
C4_DisconnectBeforeTeardown ==
    [][(teardowns' # teardowns \/ (thread # "stopped" /\ thread' = "stopped"))
           => (stopSt = "disconnected" /\ stopSt' = "returned")]_vars

\* a stop() that ran to its end: client disconnected, then thread stopped
C4_Witness ==
    /\ thread = "stopped"
    /\ teardowns = 1
    /\ stopSt = "returned"
    /\ client = "closed"

\* C5: once stop_client_background_tasks waits for the runners' stop
\* tasks it always returns, also when the stop() of the policy updater or
\* of the data updater never completes: the wait is bounded, and a shutdown
\* that returned while a stop task had not ended has logged the time-out.
C5_ShutdownWaitBounded ==
    /\ (shutPc = "wait") ~> (shutPc = "done")
    /\ [](shutPc = "done" => (timeoutLogged \/ \A r \in Runners : Ended(r)))

\* the shutdown returned although neither stop() had completed
C5_Witness ==
    /\ shutPc = "done"
    /\ timeoutLogged
    /\ stopTask["data"] = "cancelled"
    /\ stopTask["policy"] = "cancelled"
    /\ stopSt = "cancelled"
    /\ thread = "running"

\* C6 as stated: a runner's startup that fails with a rejected handshake is
\* logged and answered with the termination signal; in a state in which
\* launch_policy_store_dependent_tasks has finished, a rejected handshake
\* has been answered with a SIGTERM.
C6_AsStated ==
    ((\E r \in Runners : launch[r] = "rejected")
        /\ depPc \in {"sigterm", "raised", "returned"})
            => sigterms >= 1

\* C7 as stated: every request that is not a push for the configured
\* repository is answered "ignored" and publishes nothing, and "ok" is
\* answered only together with a publication.
C7_AsStated ==
    resp.status # "none" =>
        /\ (~(resp.matched /\ resp.event = "push"))
               => (resp.status = "ignored" /\ ~resp.published)
        /\ resp.status = "ok" => resp.published

\* C7 amended: the answer is "ignored" exactly when the configured
\* repository is not among the affected urls (or none is configured); a
\* request for the configured repository is answered "ok" whatever the
\* event; the control topic is published exactly for a push for the
\* configured repository, so never together with "ignored".
C7_WebhookResponse ==
    resp.status # "none" =>
        /\ resp.status \in {"ok", "ignored"}
        /\ resp.status = "ignored" <=> ~resp.matched
        /\ resp.published <=> (resp.matched /\ resp.event = "push")
        /\ resp.status = "ignored" => (~resp.published /\ resp.repo_url = None)
        /\ resp.status = "ok" => resp.repo_url \in {REPO, OTHER_REPO}

\* a pull_request for the configured repository: "ok", nothing published
C7_Witness ==
    /\ resp.status = "ok"
    /\ resp.event = "pull_request"
    /\ resp.matched
    /\ ~resp.published

ControlReconciles ==
    {i \in RecIds : /\ recs[i].trigger = "notify"
                    /\ recs[i].topic = WEBHOOK_TOPIC
                    /\ recs[i].dirs = ConfiguredDirs}

\* C8 as stated: every publication of the control topic made while the
\* runner is connected reaches the runner's handler and starts one full
\* reconcile; once the runner has no notification left to handle, there are
\* as many such reconciles as publications.
C8_AsStated ==
    inbox = <<>> => Cardinality(ControlReconciles) = ctlPubs

\* C8 amended: a push for the configured repository publishes the control
\* topic, but the runner subscribes to the directory topics only, so the
\* control topic never reaches its handler and starts no reconcile; what
\* the handler receives is a subscribed directory topic, for a targeted
\* reconcile.
C8_ControlTopicNotSubscribed ==
    /\ WEBHOOK_TOPIC \notin subscribed
    /\ WEBHOOK_TOPIC \notin Range(inbox)
    /\ ControlReconciles = {}
    /\ resp.published => pubs >= 1
    /\ \A i \in RecIds :
          recs[i].trigger = "notify"
              => \E d \in Range(ConfiguredDirs) :
                    recs[i].topic = POLICY_PREFIX \o d /\ recs[i].dirs = <<d>>

\* a push was published to a connected runner watching authz and rbac
C8_Witness ==
    /\ resp.status = "ok"
    /\ resp.event = "push"
    /\ resp.published
    /\ ctlPubs >= 1
    /\ client = "connected"
    /\ subscribed = {POLICY_PREFIX \o authz, POLICY_PREFIX \o rbac}
    /\ inbox = <<>>

\* C9: with an inline engine-runner configured, no runner is launched (and
\* the policy updater is not started) before the engine-runner has
\* reported its first successful start; with none configured, the runners
\* are launched by start_client_background_tasks itself.
C9_EngineRunnerGate ==
    /\ (opa # "off" /\ ((\E r \in Runners : launch[r] # "idle")
                            \/ depPc # "idle" \/ thread # "new" \/ starts > 0))
          => opaReady
    /\ (opa = "off" /\ startPc \notin {"idle", "scheduled"})
          => (depPc # "idle" /\ \A r \in Runners : launch[r] # "idle")

\* the engine-runner is up and the policy updater was launched after it
C9_Witness ==
    /\ opa = "up"
    /\ opaReady
    /\ launch["policy"] = "running"
    /\ launch["data"] = "running"
    /\ thread = "running"

\* C10: under any sequence of start() and stop() calls the runner's thread
\* only goes from new to running and from running to stopped, the latter
\* at the end of a stop(); once stopped the runner never runs again (no
\* client is constructed, no connect event or notification is handled),
\* and a stop() on a runner that was never started changes nothing.
C10_Lifecycle ==
    [][/\ thread' # thread
          => \/ (thread = "new" /\ thread' = "running")
             \/ (thread = "running" /\ thread' = "stopped"
                    /\ stopSt = "disconnected")
       /\ thread = "stopped"
          => (clientGen' = clientGen /\ connects' = connects
                /\ handled' = handled /\ client' \in {client, "closed"})
       /\ thread = "new"
          => (teardowns' = teardowns /\ client' = "none"
                /\ stopSt' \notin {"disconnecting", "disconnected"})]_vars

\* start() and stop() were both called again on a stopped runner
C10_Witness ==
    /\ thread = "stopped"
    /\ starts = 2
    /\ loopQueue = 1
    /\ stopCalls = 2
    /\ teardowns = 2

ByRunner(i) == recs[i].trigger \in {"notify", "connect"}
Failed(i) == recs[i].stage \in {"fetch_raised", "apply_raised"}

C12_BundleOrNothing ==
    [][/\ \A i \in RecIds :
             /\ (recs[i].stage = "fetching" /\ recs'[i].stage = "done")
                   => stores' = stores
             /\ recs[i].stage = "done" => recs'[i].stage = "done"
             /\ (recs[i].stage # "applying" /\ recs'[i].stage = "applying")
                   => recs[i].stage = "fetching"
             /\ recs[i].stage \in {"applied", "apply_raised"}
                   => recs'[i].stage = recs[i].stage
             /\ (recs[i].stage = "applying" /\ recs'[i].stage = "applied")
                   => stores' = [stores EXCEPT ![recs[i].store] = i]
       /\ stores' # stores
             => \E i \in RecIds :
                   recs[i].stage = "applying" /\ recs'[i].stage = "applied"]_vars

\* one reconcile ended without a bundle, another one applied its bundle
C12_Witness ==
    \E i, j \in RecIds :
        /\ recs[i].trigger = "call" /\ recs[i].stage = "done"
        /\ recs[j].trigger = "call" /\ recs[j].stage = "applied"
        /\ stores[recs[j].store] = j
        /\ \A s \in Stores : stores[s] # i

\* C13: for every list of directories, the topics made of it are as many,
\* and resolving them the way the handler does (prefix test, then prefix
\* removal) gives back the directories of the list, one by one in the same
\* order; the control topic resolves to no directory.
C13_RoundTrip ==
    /\ router.pc = "mapped" => Len(router.topics) = Len(router.dirs)
    /\ \A i \in 1..Len(router.back) : router.back[i] = <<router.dirs[i]>>
    /\ topicToDirectory(WEBHOOK_TOPIC) = <<>>

\* a list with the empty directory and a directory that starts with the
\* prefix was mapped there and back
C13_Witness ==
    /\ router.dirs = <<authz, <<>>, POLICY_PREFIX \o authz>>
    /\ Len(router.back) = 3
    /\ router.back[3] = <<POLICY_PREFIX \o authz>>

\* C14: nothing puts the reconciles of a runner in order: whenever a
\* set_policies returns, its store holds the bundle of that reconcile,
\* whatever it held before, the bundle of a reconcile that started later
\* included; the store reflects the reconcile that finished last.
C14_LastFinisherWins ==
    [][\A i \in RecIds :
          (recs[i].stage = "applying" /\ recs'[i].stage = "applied")
             => stores'[recs[i].store] = i]_vars

\* a notification started a targeted reconcile, a reconnection started a
\* full one over the same directory and for the same store after it; the
\* full one was applied first, and the store holds the targeted one's bundle
C14_Witness ==
    /\ Len(recs) = 3
    /\ recs[2].trigger = "notify" /\ recs[2].dirs = <<authz>>
    /\ recs[3].trigger = "connect" /\ authz \in Range(recs[3].dirs)
    /\ recs[2].store = recs[3].store
    /\ recs[2].stage = "applied" /\ recs[3].stage = "applied"
    /\ stores[recs[3].store] = 2

\* C15 as stated: every operation on the runner's client runs on the loop
\* of the runner's thread, the disconnect of a stop() included.
C15_AsStated ==
    \A o \in clientOps : o[2] = "thread"

\* C16 as stated: a shutdown that has begun always ends, also when the
\* engine-runner's stop() never returns, and it has then requested the
\* stop of both runners.
C16_AsStated ==
    /\ (shutPc # "idle") ~> (shutPc = "done")
    /\ [](shutPc = "done" => \A r \in Runners : stopTask[r] # "none")

\* C17 as stated: at most one SIGTERM is sent, one is sent only when a
\* runner's handshake was rejected, and once
\* launch_policy_store_dependent_tasks has ended, a rejected handshake of
\* either runner has been answered with exactly one.
C17_AsStated ==
    /\ sigterms <= 1
    /\ sigterms = 1 => \E r \in Runners : launch[r] = "rejected"
    /\ (depPc \in {"sigterm", "raised", "returned"}
           /\ \E r \in Runners : launch[r] = "rejected")
          => sigterms = 1

\* C18 as stated: whenever stop() has finished, by returning or by
\* raising, self._thread.stop() has been executed and the thread is stopped.
C18_AsStated ==
    stopSt \in {"returned", "raised"} => (thread = "stopped" /\ teardowns >= 1)

\* C19 as stated: every bundle applied by a reconcile that the runner
\* started, for a notification or for a connect event, is in the store the
\* PolicyUpdater was constructed with.
C19_AsStated ==
    \A s \in Stores :
        (stores[s] # 0 /\ ByRunner(stores[s])) => s = _policy_store

\* C20 as stated: once the shutdown has returned without a time-out the
\* policy updater's thread is not running, and from then on no runner is
\* started or launched and no store changes.
C20_AsStated ==
    /\ []((shutPc = "done" /\ ~timeoutLogged) => thread # "running")
    /\ [][(shutPc = "done" /\ ~timeoutLogged)
             => /\ starts' = starts
                /\ \A r \in Runners :
                      launch'[r] = "running" => launch[r] = "running"
                /\ stores' = stores]_vars

====
